---- MODULE Spec2Model ----
(***************************************************************************)
(* A model of src/app.py, the Streamlit script of the "Gemini 2.5          *)
(* TradeStation" dashboard.                                                *)
(*                                                                         *)
(* Streamlit runs the script from its first line to its last on every user *)
(* interaction; st.session_state is the only state that survives from one  *)
(* run to the next.  A run is modelled as a walk of the program counter pc *)
(* through the script's sections: the configuration block, the Scan        *)
(* Markets handler, the Ask Analyst handler and the Generate Strategy      *)
(* handler.  The quote provider (yfinance) and the generation service      *)
(* (google.generativeai) are the environment: each call draws its reply    *)
(* from a finite set that covers every branch of the code that reads it.   *)
(*                                                                         *)
(* app.py holds two successive copies of the script (lines 1-163 and       *)
(* 165-326).  The second repeats the first's configuration, functions,     *)
(* scanner and portfolio builder verbatim and differs only in the wording  *)
(* of the Ask Analyst prompt.  The model follows the first copy, whose     *)
(* handlers are the ones a run executes first.                             *)
(*                                                                         *)
(* Python strings are TLA+ strings, built with \o as the code builds them. *)
(* A price is an integer number of cents.                                  *)
(***************************************************************************)
EXTENDS Integers, Sequences, FiniteSets, TLC

VARIABLES
    pc,             \* the section of the script the current run has reached
    hasKey,         \* whether st.secrets holds GEMINI_API_KEY in this run
    button,         \* the button whose press started this run ("none": another rerun)
    session_state,  \* st.session_state: a function from keys to values
    market_data,    \* the scan handler's local market_data
    i,              \* the scan loop's position in the watchlist (1-based)
    fetched,        \* the tickers get_safe_data was called with in this run, in order
    lastFetch,      \* the most recent get_safe_data call: ticker, provider reply, result
    wrote,          \* whether this run assigned st.session_state['market_data']
    prompt,         \* the prompt the current handler built
    calls,          \* the generate_content calls of this run, in order
    genReply,       \* the service's reply to this run's generation request
    answer,         \* what this run displayed with st.markdown
    chart,          \* the pie chart this run drew
    inputs,         \* the widget values this run read: question, investment, risk_level
    lastScan,       \* the market_data of the most recent completed scan of the session
    prevGen         \* the outcome of the session's previous get_gemini_response call

vars == <<pc, hasKey, button, session_state, market_data, i, fetched, lastFetch,
          wrote, prompt, calls, genReply, answer, chart, inputs, lastScan, prevGen>>

-----------------------------------------------------------------------------
(* Configuration: lines 17-19 *)

MODEL_NAME == "gemini-2.5-flash"

WATCHLIST == <<"NVDA", "TSLA", "AAPL", "AMD", "MSFT", "BTC-USD", "ETH-USD">>

\* The model scans the first MaxTickers entries of WATCHLIST.
MaxTickers == 2

Scanned == SubSeq(WATCHLIST, 1, MaxTickers)

None == "<None>"

EmptySession == [k \in {} |-> ""]

-----------------------------------------------------------------------------
(* Python values *)

\* What evaluating a piece of code gives: a value, or an exception on its way out.
Return(v) == [raised |-> FALSE, value |-> v]

Raised == [raised |-> TRUE, value |-> None]

Last(s) == s[Len(s)]

\* s[:n]
Take(s, n) == SubSeq(s, 1, IF Len(s) < n THEN Len(s) ELSE n)

\* sep.join(parts)
RECURSIVE Join(_, _)
Join(sep, parts) ==
    IF parts = <<>> THEN ""
    ELSE IF Len(parts) = 1 THEN parts[1]
    ELSE parts[1] \o sep \o Join(sep, Tail(parts))

Pad2(n) == IF n < 10 THEN "0" \o ToString(n) ELSE ToString(n)

Pad3(n) == IF n < 10 THEN "00" \o ToString(n)
           ELSE IF n < 100 THEN "0" \o ToString(n)
           ELSE ToString(n)

\* format(n, ",") for an integer n >= 0: groups of three digits
RECURSIVE Grouped(_)
Grouped(n) == IF n < 1000 THEN ToString(n)
              ELSE Grouped(n \div 1000) \o "," \o Pad3(n % 1000)

\* f"{price:,.2f}" for a price of `cents` cents
FormatPrice(cents) == Grouped(cents \div 100) \o "." \o Pad2(cents % 100)

-----------------------------------------------------------------------------
(* The quote provider and get_safe_data: lines 26-41 *)

\* The replies of yfinance to one get_safe_data call: whether yf.Ticker raises,
\* whether history() raises or returns a frame (empty when close is <<>>, with
\* or without a 'Close' column), whether stock.news raises or is a list of
\* items, each with or without a 'title'.
Item(t) == [hasTitle |-> TRUE, title |-> t]

Untitled == [hasTitle |-> FALSE, title |-> None]

Reply(ctor, hist, hasClose, close, news, items) ==
    [ctor |-> ctor, hist |-> hist, hasClose |-> hasClose, close |-> close,
     news |-> news, items |-> items]

ProviderReplies ==
    { Reply("raise", "frame", TRUE, <<>>, "list", <<>>),
      Reply("ok", "raise", TRUE, <<>>, "list", <<>>),
      Reply("ok", "frame", TRUE, <<>>, "list", <<>>),
      Reply("ok", "frame", TRUE, <<>>, "list", <<Item("Fed holds rates")>>),
      Reply("ok", "frame", TRUE, <<>>, "raise", <<>>),
      Reply("ok", "frame", FALSE, <<18050>>, "list", <<>>),
      Reply("ok", "frame", TRUE, <<18050, 123456>>, "raise", <<>>),
      Reply("ok", "frame", TRUE, <<18050, 123456>>, "list", <<>>),
      Reply("ok", "frame", TRUE, <<18050, 123456>>, "list",
            <<Item("Chip rally"), Untitled, Item("Third story")>>) }

\* hist.empty
HistEmpty(r) == r.close = <<>>

\* A price without the guard on hist.empty: iloc[-1] of an empty column raises.
Price_NoEmptyGuard(r) ==
    IF r.hasClose /\ r.close # <<>> THEN Return(Last(r.close)) ELSE Raised

\* line 31: hist['Close'].iloc[-1] if not hist.empty else 0.0
Price(r) ==
    IF ~HistEmpty(r)
    THEN IF r.hasClose THEN Return(Last(r.close)) ELSE Raised
    ELSE Return(0)

\* lines 34-37
NewsText(items) ==
    IF items # <<>>
    THEN LET firstTwo == Take(items, 2)
             headlines == [k \in 1..Len(firstTwo) |->
                              IF firstTwo[k].hasTitle THEN firstTwo[k].title
                              ELSE "No Title"]
         IN  Join(" | ", headlines)
    ELSE ""

\* The try block, lines 29-39
QuoteBody(ticker, r) ==
    IF r.ctor = "raise" THEN Raised
    ELSE IF r.hist = "raise" THEN Raised
    ELSE LET price == Price(r) IN
         IF price.raised THEN Raised
         ELSE IF r.news = "raise" THEN Raised
         ELSE Return(ticker \o ": $" \o FormatPrice(price.value)
                            \o " (" \o NewsText(r.items) \o ")")

\* line 41
Unavailable(ticker) == ticker \o ": Data Unavailable"

\* A get_safe_data whose try block ends after the price: a failure of
\* stock.news leaves the function.
get_safe_data_NarrowTry(ticker, r) ==
    IF r.ctor = "ok" /\ r.hist = "frame" /\ ~Price(r).raised /\ r.news = "raise"
    THEN Raised
    ELSE LET body == QuoteBody(ticker, r) IN
         IF body.raised THEN Return(Unavailable(ticker)) ELSE body

get_safe_data(ticker, r) ==
    LET body == QuoteBody(ticker, r) IN
    IF body.raised THEN Return(Unavailable(ticker)) ELSE body

-----------------------------------------------------------------------------
(* The generation service and get_gemini_response: lines 43-50 *)

\* The candidate models of this script: the one MODEL_NAME.
Candidates == <<MODEL_NAME>>

\* The replies of model.generate_content(prompt).text: a text; an exception of
\* the API client (a non-success status) or of the transport; or a success
\* whose body holds no text, on which .text raises ValueError.
GenReplies ==
    { [kind |-> "text", exc |-> None, detail |-> "Mood: cautious. Biggest mover: NVDA."],
      [kind |-> "status", exc |-> "NotFound",
       detail |-> "404 models/gemini-2.5-flash is not found"],
      [kind |-> "status", exc |-> "ResourceExhausted", detail |-> "429 Quota exceeded"],
      [kind |-> "transport", exc |-> "ConnectionError", detail |-> "Connection reset by peer"],
      [kind |-> "unexpected_body", exc |-> "ValueError",
       detail |-> "Invalid operation: response.text requires a valid Part"] }

Succeeds(r) == r.kind = "text"

\* An except clause that names the API client's errors only.
Caught_ApiErrorsOnly(exc) == exc \in {"NotFound", "ResourceExhausted"}

\* line 49, except Exception: every exception class of GenReplies derives from it
Caught(exc) == exc \in {"NotFound", "ResourceExhausted", "ConnectionError", "ValueError"}

\* A failure string that leaves the exception's text out.
ErrorString_NoDetail(detail) == "AI Error"

\* line 50

ErrorString(detail) == "AI Error: " \o detail

GenCall(p) == [model |-> MODEL_NAME, prompt |-> p]

\* A get_gemini_response that tries the model a second time when it fails.
get_gemini_response_Retry(p, r) ==
    IF Succeeds(r) THEN [raised |-> FALSE, value |-> r.detail, calls |-> <<GenCall(p)>>]
    ELSE [raised |-> FALSE, value |-> ErrorString(r.detail),
          calls |-> <<GenCall(p), GenCall(p)>>]

\* A get_gemini_response that returns the prompt's echo instead of the text.
get_gemini_response_WrongText(p, r) ==
    IF Succeeds(r) THEN [raised |-> FALSE, value |-> p, calls |-> <<GenCall(p)>>]
    ELSE [raised |-> FALSE, value |-> ErrorString(r.detail), calls |-> <<GenCall(p)>>]

\* One generate_content call to MODEL_NAME inside try; its text, or the
\* "AI Error" string of the exception caught.
get_gemini_response(p, r) ==
    IF Succeeds(r) THEN [raised |-> FALSE, value |-> r.detail, calls |-> <<GenCall(p)>>]
    ELSE IF Caught(r.exc)
         THEN [raised |-> FALSE, value |-> ErrorString(r.detail), calls |-> <<GenCall(p)>>]
         ELSE [raised |-> TRUE, value |-> None, calls |-> <<GenCall(p)>>]

-----------------------------------------------------------------------------
(* The prompts and the risk table *)

\* lines 67-73
ScanPrompt(data) ==
    "\n        Act as a Hedge Fund Manager in 2026.\n        Data: " \o data
    \o "\n        \n        1. Give a very short summary of the market mood."
    \o "\n        2. Name the single biggest mover.\n        "

\* line 88
NoScanContext == "No live data scanned yet. Using general knowledge."

\* An Ask Analyst handler that never reads the session.
AskContext_AlwaysGeneral(session) == NoScanContext

\* lines 85-88: the session's snapshot when it holds one, the fixed text otherwise

AskContext(session) ==
    IF "market_data" \in DOMAIN session THEN session["market_data"]
    ELSE NoScanContext

\* lines 91-106
AskPrompt(context, question) ==
    "\n    ROLE: You are 'Gekko', a ruthless, high-stakes Wall Street Hedge Fund manager. "
    \o "\n    You are NOT a helpful assistant. You have strong opinions.\n    "
    \o "\n    CONTEXT: " \o context
    \o "\n    USER QUESTION: " \o question
    \o "\n    \n    INSTRUCTIONS:"
    \o "\n    1. Answer the question directly. Do not waffle."
    \o "\n    2. If asked to Buy or Sell, give a 'VERDICT' based on probability (e.g., \"Verdict: STRONG BUY\")."
    \o "\n    3. Do NOT say \"I am an AI\" or \"This is not financial advice\". "
    \o "\n    4. Base your answer purely on the numbers and news provided."
    \o "\n    5. Be concise and professional, but decisive."
    \o "\n    \n    Give me your analysis now:\n    "

\* lines 121-122: the labels the radio offers
RiskLevels == <<"Very Low", "Low", "Moderate", "High", "Very High">>

Alloc(asset, pct) == [asset |-> asset, pct |-> pct]

\* lines 128-132: each label's allocation, in the dict's insertion order
AllocVeryLow ==
    <<Alloc("Bonds", 70), Alloc("Cash", 20), Alloc("Index Funds", 10),
      Alloc("Stocks", 0), Alloc("Crypto", 0)>>

AllocLow ==
    <<Alloc("Bonds", 50), Alloc("Index Funds", 30), Alloc("Cash", 10),
      Alloc("Stocks", 10), Alloc("Crypto", 0)>>

AllocModerate ==
    <<Alloc("Index Funds", 40), Alloc("Stocks", 30), Alloc("Bonds", 20),
      Alloc("Crypto", 5), Alloc("Cash", 5)>>

AllocHigh ==
    <<Alloc("Stocks", 50), Alloc("Crypto", 30), Alloc("Index Funds", 10),
      Alloc("Bonds", 0), Alloc("Tech ETFs", 10)>>

AllocVeryHigh ==
    <<Alloc("Crypto", 60), Alloc("Tech Options", 20), Alloc("Stocks", 20),
      Alloc("Bonds", 0), Alloc("Cash", 0)>>

\* A risk table whose "Moderate" row gives Crypto 10 instead of 5.
risk_map_Typo ==
    [label \in {"Very Low", "Low", "Moderate", "High", "Very High"} |->
        CASE label = "Very Low" -> AllocVeryLow
          [] label = "Low" -> AllocLow
          [] label = "Moderate" -> [AllocModerate EXCEPT ![4] = Alloc("Crypto", 10)]
          [] label = "High" -> AllocHigh
          [] label = "Very High" -> AllocVeryHigh]

\* lines 127-133
risk_map ==
    [label \in {"Very Low", "Low", "Moderate", "High", "Very High"} |->
        CASE label = "Very Low" -> AllocVeryLow
          [] label = "Low" -> AllocLow
          [] label = "Moderate" -> AllocModerate
          [] label = "High" -> AllocHigh
          [] label = "Very High" -> AllocVeryHigh]

\* line 138: risk_map[risk_level]; a label that is no key raises KeyError
Lookup(level) ==
    IF level \in DOMAIN risk_map THEN Return(risk_map[level]) ELSE Raised

\* str(dict): {'Bonds': 70, 'Cash': 20}
DictRepr(allocations) ==
    "{" \o Join(", ", [k \in 1..Len(allocations) |->
                          "'" \o allocations[k].asset \o "': "
                          \o ToString(allocations[k].pct)])
    \o "}"

\* line 140: df[df['Percentage'] > 0]
RECURSIVE Positive(_)
Positive(allocations) ==
    IF allocations = <<>> THEN <<>>
    ELSE IF allocations[1].pct > 0
         THEN <<allocations[1]>> \o Positive(Tail(allocations))
         ELSE Positive(Tail(allocations))

\* lines 142-144
PieChart(allocations, investment) ==
    [title |-> "Recommended Allocation for $" \o Grouped(investment),
     rows |-> Positive(allocations)]

\* lines 150-159
StrategyPrompt(investment, level, allocations) ==
    "\n        Act as a professional financial advisor. "
    \o "\n        User has $" \o ToString(investment) \o " and a '" \o level
    \o "' risk tolerance."
    \o "\n        The recommended allocation is: " \o DictRepr(allocations) \o "."
    \o "\n        \n        Task:"
    \o "\n        1. Break down exactly how much money to put in each category (calculate the dollars)."
    \o "\n        2. Recommend SPECIFIC tickers/assets for 2026 (e.g., if Crypto, suggest BTC/ETH. If Bonds, suggest SHY/TLT)."
    \o "\n        3. Explain the risk warning for this specific portfolio.\n        "

\* What the user may have typed or chosen when a run reads the widgets
Questions == {"", "Should I sell NVDA?"}

Investments == {1000, 2500}

DefaultInputs == [question |-> "", investment |-> 1000, risk_level |-> "Very Low"]

Buttons == {"none", "scan", "ask", "strategy"}

-----------------------------------------------------------------------------
(* The script run *)

NoFetch == [ticker |-> None, reply |-> None, data |-> None]

NoReply == [kind |-> None, exc |-> None, detail |-> None]

NoChart == [title |-> None, rows |-> <<>>]

Init ==
    /\ pc = "config"
    /\ hasKey \in BOOLEAN
    /\ button = "none"
    /\ session_state = EmptySession
    /\ market_data = ""
    /\ i = 1
    /\ fetched = <<>>
    /\ lastFetch = NoFetch
    /\ wrote = FALSE
    /\ prompt = None
    /\ calls = <<>>
    /\ genReply = NoReply
    /\ answer = None
    /\ chart = NoChart
    /\ inputs = DefaultInputs
    /\ lastScan = None
    /\ prevGen = "none"

\* What a get_gemini_response call that got reply r came to
Outcome(r) == IF Succeeds(r) THEN "ok" ELSE "failed"

\* A user interaction reruns the script from the top: the script's variables
\* start afresh, st.session_state is kept.  A run is taken to reach its end
\* (the last line, st.stop() or an uncaught exception) before the next
\* interaction is handled.
Rerun(b) ==
    /\ pc \in {"done", "stopped", "crashed"}
    /\ pc' = "config"
    /\ hasKey' \in BOOLEAN
    /\ button' = b
    /\ market_data' = ""
    /\ i' = 1
    /\ fetched' = <<>>
    /\ lastFetch' = NoFetch
    /\ wrote' = FALSE
    /\ prompt' = None
    /\ calls' = <<>>
    /\ genReply' = NoReply
    /\ answer' = None
    /\ chart' = NoChart
    /\ inputs' = DefaultInputs
    /\ prevGen' = IF calls # <<>> THEN Outcome(genReply) ELSE prevGen
    /\ UNCHANGED <<session_state, lastScan>>

\* A configuration block that reports the missing key and goes on.
AfterConfig_NoStop(present) == "scan_btn"

\* lines 10-14: st.stop() ends the run when the key is absent

AfterConfig(present) == IF present THEN "scan_btn" ELSE "stopped"

Configure ==
    /\ pc = "config"
    /\ pc' = AfterConfig(hasKey)
    /\ UNCHANGED <<hasKey, button, session_state, market_data, i, fetched, lastFetch,
                   wrote, prompt, calls, genReply, answer, chart, inputs, lastScan,
                   prevGen>>

\* lines 55-58
ScanButton ==
    /\ pc = "scan_btn"
    /\ IF button = "scan"
       THEN /\ market_data' = ""
            /\ i' = 1
            /\ pc' = "scan_loop"
       ELSE /\ pc' = "ask_btn"
            /\ UNCHANGED <<market_data, i>>
    /\ UNCHANGED <<hasKey, button, session_state, fetched, lastFetch, wrote, prompt,
                   calls, genReply, answer, chart, inputs, lastScan, prevGen>>

\* A loop that stops one ticker early.
LoopHasNext_SkipsLast(k) == k < Len(Scanned)

\* line 59: the for loop has a ticker left

LoopHasNext(k) == k <= Len(Scanned)

\* lines 59-62: one iteration of the loop
ScanFetch ==
    /\ pc = "scan_loop"
    /\ LoopHasNext(i)
    /\ \E r \in ProviderReplies :
          LET ticker == Scanned[i]
              data == get_safe_data(ticker, r)
          IN  /\ fetched' = Append(fetched, ticker)
              /\ lastFetch' = [ticker |-> ticker, reply |-> r, data |-> data]
              /\ IF data.raised
                 THEN /\ pc' = "crashed"
                      /\ UNCHANGED <<market_data, i>>
                 ELSE /\ market_data' = market_data \o data.value \o "\n"
                      /\ i' = i + 1
                      /\ pc' = "scan_loop"
    /\ UNCHANGED <<hasKey, button, session_state, wrote, prompt, calls, genReply,
                   answer, chart, inputs, lastScan, prevGen>>

\* lines 65-74: the loop is over; save the snapshot, build the prompt
ScanSave ==
    /\ pc = "scan_loop"
    /\ ~LoopHasNext(i)
    /\ session_state' = [k \in DOMAIN session_state \cup {"market_data"} |->
                            IF k = "market_data" THEN market_data ELSE session_state[k]]
    /\ wrote' = TRUE
    /\ lastScan' = market_data
    /\ prompt' = ScanPrompt(market_data)
    /\ pc' = "scan_ai"
    /\ UNCHANGED <<hasKey, button, market_data, i, fetched, lastFetch, calls, genReply,
                   answer, chart, inputs, prevGen>>

\* lines 82-106: the text area; the Ask Analyst handler builds its prompt
AskButton ==
    /\ pc = "ask_btn"
    /\ \E q \in Questions :
          /\ inputs' = [inputs EXCEPT !.question = q]
          /\ IF button = "ask"
             THEN /\ prompt' = AskPrompt(AskContext(session_state), q)
                  /\ pc' = "ask_ai"
             ELSE /\ pc' = "strategy_btn"
                  /\ UNCHANGED prompt
    /\ UNCHANGED <<hasKey, button, session_state, market_data, i, fetched, lastFetch,
                   wrote, calls, genReply, answer, chart, lastScan, prevGen>>

\* lines 120-159: the inputs; the Generate Strategy handler looks the allocation
\* up, draws the chart and builds its prompt
StrategyButton ==
    /\ pc = "strategy_btn"
    /\ \E inv \in Investments, k \in 1..Len(RiskLevels) :
          LET level == RiskLevels[k]
              allocations == Lookup(level)
          IN  /\ inputs' = [inputs EXCEPT !.investment = inv, !.risk_level = level]
              /\ IF button = "strategy"
                 THEN IF allocations.raised
                      THEN /\ pc' = "crashed"
                           /\ UNCHANGED <<chart, prompt>>
                      ELSE /\ chart' = PieChart(allocations.value, inv)
                           /\ prompt' = StrategyPrompt(inv, level, allocations.value)
                           /\ pc' = "strategy_ai"
                 ELSE /\ pc' = "done"
                      /\ UNCHANGED <<chart, prompt>>
    /\ UNCHANGED <<hasKey, button, session_state, market_data, i, fetched, lastFetch,
                   wrote, calls, genReply, answer, lastScan, prevGen>>

\* The section that follows a handler's get_gemini_response call
AfterAI(at) == CASE at = "scan_ai" -> "ask_btn"
                 [] at = "ask_ai" -> "strategy_btn"
                 [] at = "strategy_ai" -> "done"

\* lines 75, 109-110, 162-163: st.markdown(get_gemini_response(prompt))
AskGemini ==
    /\ pc \in {"scan_ai", "ask_ai", "strategy_ai"}
    /\ \E r \in GenReplies :
          LET res == get_gemini_response(prompt, r)
          IN  /\ calls' = calls \o res.calls
              /\ genReply' = r
              /\ IF res.raised
                 THEN /\ pc' = "crashed"
                      /\ UNCHANGED answer
                 ELSE /\ answer' = res.value
                      /\ pc' = AfterAI(pc)
    /\ UNCHANGED <<hasKey, button, session_state, market_data, i, fetched, lastFetch,
                   wrote, prompt, chart, inputs, lastScan, prevGen>>

Next ==
    \/ \E b \in Buttons : Rerun(b)
    \/ Configure
    \/ ScanButton
    \/ ScanFetch
    \/ ScanSave
    \/ AskButton
    \/ StrategyButton
    \/ AskGemini

Spec == Init /\ [][Next]_vars

\* The run is synchronous: a step that can be taken is taken.
FairSpec == Spec /\ WF_vars(Next)

-----------------------------------------------------------------------------
(* Helpers of the properties *)

StartsWith(s, pre) == Len(s) >= Len(pre) /\ SubSeq(s, 1, Len(pre)) = pre

EndsWith(s, suf) == Len(s) >= Len(suf) /\ SubSeq(s, Len(s) - Len(suf) + 1, Len(s)) = suf

Contains(s, sub) ==
    \E k \in 1..(Len(s) - Len(sub) + 1) : SubSeq(s, k, k + Len(sub) - 1) = sub

\* The lines of a string each of whose lines ends in "\n"; <<None>> marks a
\* last line that does not.
RECURSIVE LinesFrom(_, _, _)
LinesFrom(s, start, k) ==
    IF k > Len(s)
    THEN IF start > Len(s) THEN <<>> ELSE <<None>>
    ELSE IF SubSeq(s, k, k) = "\n"
         THEN <<SubSeq(s, start, k - 1)>> \o LinesFrom(s, k + 1, k + 1)
         ELSE LinesFrom(s, start, k + 1)

Lines(s) == LinesFrom(s, 1, 1)

\* A snapshot entry of ticker t: the unavailable sentinel or a price entry
IsPriceEntry(e, t) == StartsWith(e, t \o ": $") /\ EndsWith(e, ")")

IsEntry(e, t) == e = t \o ": Data Unavailable" \/ IsPriceEntry(e, t)

\* One newline-terminated entry per ticker of `tickers`, in that order
IsSnapshotOf(s, tickers) ==
    LET ls == Lines(s) IN
    /\ Len(ls) = Len(tickers)
    /\ \A k \in 1..Len(ls) : IsEntry(ls[k], tickers[k])

HasSnapshot == "market_data" \in DOMAIN session_state

Invoked == calls # <<>>

ModelsCalled == [k \in 1..Len(calls) |-> calls[k].model]

RECURSIVE SumPct(_)
SumPct(allocations) ==
    IF allocations = <<>> THEN 0 ELSE allocations[1].pct + SumPct(Tail(allocations))

\* Whether the provider's reply r makes some step of get_safe_data fail
Fails(r) ==
    \/ r.ctor = "raise"
    \/ r.hist = "raise"
    \/ (r.close # <<>> /\ ~r.hasClose)
    \/ r.news = "raise"

Fetched == lastFetch.ticker # None

-----------------------------------------------------------------------------
(* The properties *)

C2_AllFail ==
    (Invoked /\ genReply.kind \in {"status", "transport"}) =>
        /\ pc # "crashed"
        /\ Len(calls) = Len(Candidates)
        /\ StartsWith(answer, "AI Error")
        /\ Contains(answer, genReply.detail)

C2_Witness ==
    /\ Invoked
    /\ genReply.kind = "transport"
    /\ pc = "done"
    /\ answer = "AI Error: Connection reset by peer"

C4_FailureSwallowed ==
    /\ (Fetched /\ Fails(lastFetch.reply)) =>
          /\ ~lastFetch.data.raised
          /\ lastFetch.data.value = lastFetch.ticker \o ": Data Unavailable"
    /\ (button = "scan" /\ hasKey /\ fetched # Scanned) =>
          pc \in {"config", "scan_btn", "scan_loop"}

C4_Witness ==
    /\ wrote
    /\ fetched = Scanned
    /\ StartsWith(market_data, "NVDA: Data Unavailable\n")
    /\ Fetched
    /\ lastFetch.ticker = Scanned[Len(Scanned)]
    /\ lastFetch.reply.news = "raise"
    /\ lastFetch.reply.close # <<>>

\* C5: in a run in which the API key is absent, startup halts: the run makes
\* no quote fetch, sends no generation request and does not write the
\* session's snapshot, whichever button started it.
C5_NoKeyHalts ==
    ~hasKey =>
        /\ pc \in {"config", "stopped"}
        /\ fetched = <<>>
        /\ calls = <<>>
        /\ ~wrote
        /\ prompt = None

C5_Witness ==
    /\ ~hasKey
    /\ pc = "stopped"
    /\ button = "scan"
    /\ HasSnapshot

\* C6: the session's snapshot is the string of the most recent completed scan,
\* and absent while no scan has completed; a run started by Ask Analyst or by
\* Generate Strategy does not write it; and the Ask Analyst prompt is built
\* from that snapshot when there is one and from the fixed text when there is
\* none.
C6_SnapshotIsLastScan ==
    /\ HasSnapshot <=> lastScan # None
    /\ HasSnapshot => session_state["market_data"] = lastScan
    /\ button \in {"ask", "strategy"} => ~wrote
    /\ (button = "ask" /\ prompt # None) =>
          prompt = AskPrompt(IF lastScan # None THEN lastScan ELSE NoScanContext,
                             inputs.question)

C6_Witness ==
    /\ button = "ask"
    /\ pc = "done"
    /\ lastScan # None
    /\ Contains(prompt, "CONTEXT: NVDA: Data Unavailable\nTSLA: $1,234.56 ()\n")

\* C7: a success whose body holds no text is a failure of that candidate:
\* the call does not crash the run and, no candidate being left, the
\* invocation returns the failure string, after one call per candidate.
C7_UnexpectedBody ==
    (Invoked /\ genReply.kind = "unexpected_body") =>
        /\ pc # "crashed"
        /\ Len(calls) = Len(Candidates)
        /\ answer = "AI Error: " \o genReply.detail

C7_Witness ==
    /\ Invoked
    /\ genReply.kind = "unexpected_body"
    /\ pc = "strategy_btn"
    /\ answer # None

\* C8: an invocation calls no candidate twice, and whatever the previous
\* invocation came to, it starts from the first candidate: the models it
\* calls, in order, are those up to the first success among this
\* invocation's own replies (here the single candidate, called once).
C8_OneAttemptNoMemory ==
    Invoked =>
        /\ \A j, k \in 1..Len(calls) : j # k => calls[j].model # calls[k].model
        /\ calls[1].model = Candidates[1]
        /\ prevGen \in {"none", "ok", "failed"}
        /\ ModelsCalled = IF Succeeds(genReply) THEN SubSeq(Candidates, 1, 1)
                          ELSE Candidates

C8_Witness ==
    /\ Invoked
    /\ prevGen = "failed"
    /\ ~Succeeds(genReply)
    /\ ModelsCalled = <<MODEL_NAME>>

\* C9, the state part: the tickers fetched are the watchlist's first ones, in
\* watchlist order and once each; the snapshot is written only once all are
\* fetched and is one newline-terminated entry per ticker in that order; and
\* the scan's one generation request comes after the write and carries the
\* snapshot written.
C9_ScanState ==
    /\ Len(fetched) <= Len(Scanned)
    /\ fetched = SubSeq(Scanned, 1, Len(fetched))
    /\ pc = "scan_loop" => IsSnapshotOf(market_data, fetched)
    /\ wrote =>
          /\ fetched = Scanned
          /\ HasSnapshot
          /\ session_state["market_data"] = market_data
          /\ IsSnapshotOf(market_data, Scanned)
    /\ (button = "scan" /\ Invoked) =>
          /\ wrote
          /\ Len(calls) = 1
          /\ calls[1].prompt = ScanPrompt(session_state["market_data"])
    /\ button # "scan" => fetched = <<>>

\* C9: every scan terminates, after one fetch per watchlist ticker in
\* watchlist order, with the snapshot of C9_ScanState written before its
\* generation request is sent.
C9_ScanTerminates ==
    /\ []C9_ScanState
    /\ (pc = "scan_loop") ~> (pc = "scan_ai" /\ fetched = Scanned /\ wrote)
    /\ (pc = "scan_ai") ~> (pc = "ask_btn" /\ Len(calls) = 1)

C9_Witness ==
    /\ button = "scan"
    /\ pc = "ask_btn"
    /\ wrote
    /\ Invoked
    /\ fetched = Scanned
    /\ market_data = "NVDA: $1,234.56 (Chip rally | No Title)\nTSLA: Data Unavailable\n"

\* C10: every label the radio offers is a key of the risk table, its
\* allocation is made of non-negative integer percentages that sum to 100,
\* and so is the allocation Generate Strategy has looked up and charted.
C10_AllocationsSumTo100 ==
    /\ \A k \in 1..Len(RiskLevels) :
          LET found == Lookup(RiskLevels[k]) IN
          /\ ~found.raised
          /\ \A a \in 1..Len(found.value) : found.value[a].pct \in Nat
          /\ SumPct(found.value) = 100
    /\ button = "strategy" => pc # "crashed"
    /\ chart # NoChart =>
          /\ SumPct(chart.rows) = 100
          /\ \A a \in 1..Len(chart.rows) : chart.rows[a].pct \in Nat \ {0}

C10_Witness ==
    /\ pc = "strategy_ai"
    /\ inputs.risk_level = "Very High"
    /\ chart # NoChart
    /\ Len(chart.rows) = 3
    /\ chart.title = "Recommended Allocation for $2,500"

====
